---- MODULE Spec2Model ----
(***************************************************************************)
(* Schema-version orchestrator of gabriel-araujjo/versioned-database.      *)
(*                                                                         *)
(* The repository holds two implementations of persistSchemeInternal for   *)
(* the same PersistScheme entry point:                                     *)
(*   - src/versioned-db.go : reads the version, begins the transaction,    *)
(*     runs the callback, commits, and only then calls SetVersion;         *)
(*   - src/unnamed/part_000: begins the transaction, reads the version,    *)
(*     runs the callback, calls SetVersion, and then commits.              *)
(* The variable build says which of the two a behaviour runs.              *)
(*                                                                         *)
(* The store (database/sql handle plus the Strategy backend) is outside    *)
(* the repository.  It is modelled by the contract the callers rely on:    *)
(* a statement issued while the caller's transaction is open belongs to    *)
(* that transaction (it becomes durable on a successful Commit and is      *)
(* discarded by Rollback or a failed Commit); a statement issued with no   *)
(* open transaction is durable as soon as it succeeds.                     *)
(***************************************************************************)
EXTENDS Integers, Sequences, FiniteSets, TLC

\* Largest target version a scheme may ask for.
MaxVersion == 3

Procs == {"p1", "p2"}
Names == {"fake", "other"}
Strategies == {"s1", "s2"}
NilStrategy == "nil"
Builds == {"versioned-db.go", "part_000"}

\* Go's nil error, and the errors the collaborators can hand back.
NoErr == "nil"
CallbackErrors == {"SomeError", "OtherError"}
ErrDbNil == "versioned db: db is nil"
ErrSchemeNil == "versioned db: scheme is nil"
ErrVersionLessThanOne == "versioned db: version is less then one"
ErrUnknownScheme == "versioned db: unknown v scheme"
ErrVersion == "Version failed"
ErrBegin == "Begin failed"
ErrSetVersion == "SetVersion failed"
ErrCommit == "Commit failed"
Panic == "panic"

\* The values of the Scheme interface: Version() and VersionStrategy().
Schemes == [isNil : {FALSE}, version : (0 - 1)..MaxVersion, strategy : Names]
NilScheme == [isNil |-> TRUE, version |-> 0, strategy |-> "fake"]

VARIABLES
    versionDrivers,     \* the registry map: name -> strategy (NilStrategy: no entry)
    versionDriversMu,   \* the RWMutex: [writer : holder or "none", readers : set]
    stored,             \* the durable schema version kept by the backend
    schema,             \* the target version whose callback mutation is durable
    build,              \* which persistSchemeInternal this behaviour runs
    proc,               \* each caller's position, arguments, locals and history
    lastDone            \* history: the scheme of the latest apply that returned
                        \* nil after a create or update (NilScheme: none yet)

vars ==
    <<versionDrivers, versionDriversMu, stored, schema, build, proc, lastDone>>

Idle ==
    [pc |-> "idle", op |-> "none", db |-> FALSE, scheme |-> NilScheme,
     name |-> "fake", regStrategy |-> NilStrategy,
     version |-> 0, strategy |-> NilStrategy, dbVersion |-> 0, err |-> NoErr,
     tx |-> "none", txVersion |-> <<>>, txSchema |-> <<>>,
     log |-> <<>>, ret |-> NoErr,
     preStored |-> 0, preSchema |-> 0,
     preDrivers |-> [n \in Names |-> NilStrategy]]

Init ==
    /\ versionDrivers = [n \in Names |-> NilStrategy]
    /\ versionDriversMu = [writer |-> "none", readers |-> {}]
    /\ stored = 0
    /\ schema = 0
    /\ build \in Builds
    /\ proc = [p \in Procs |-> Idle]
    /\ lastDone = NilScheme

----------------------------------------------------------------------------
\* Helpers on a caller's record.

\* One call to a collaborator: which, its argument, and the error it returned.
Event(op, arg, res) == [op |-> op, arg |-> arg, res |-> res]

Logged(r, op, arg, res) == [r EXCEPT !.log = Append(@, Event(op, arg, res))]

Returned(r, e) == [r EXCEPT !.pc = "returned", !.ret = e]

Entered(op) ==
    [Idle EXCEPT !.op = op, !.preStored = stored, !.preSchema = schema,
                 !.preDrivers = versionDrivers]

Quiet == \A q \in Procs : proc[q].pc = "idle"

----------------------------------------------------------------------------
\* The store: the transaction handle and the backend's version cell.

\* db.Begin() succeeded: a transaction with nothing pending.
TxBegun(r) == [r EXCEPT !.tx = "open", !.txVersion = <<>>, !.txSchema = <<>>]

\* What strategy.Version(db) reports to caller r.
VersionRead(r) ==
    IF r.tx = "open" /\ r.txVersion # <<>> THEN r.txVersion[1] ELSE stored

\* tx.Rollback(): everything pending is discarded.
TxRolledBack(r) ==
    [r EXCEPT !.tx = "rolledback", !.txVersion = <<>>, !.txSchema = <<>>]

\* tx.Commit() that failed: nothing pending becomes durable.
TxCommitFailed(r) ==
    [r EXCEPT !.tx = "aborted", !.txVersion = <<>>, !.txSchema = <<>>]

\* tx.Commit() that succeeded.
TxCommitted(r) ==
    [r EXCEPT !.tx = "committed", !.txVersion = <<>>, !.txSchema = <<>>]

CommittedVersion(r) == IF r.txVersion # <<>> THEN r.txVersion[1] ELSE stored

CommittedSchema(r) == IF r.txSchema # <<>> THEN r.txSchema[1] ELSE schema

----------------------------------------------------------------------------
\* Register (both files, lines 31-42).

\* Register without the duplicate check of lines 38-40: the later
\* registration replaces the earlier one.
RegisterOutcome_NoDuplicateCheck(name, strategy) ==
    IF strategy = NilStrategy THEN Panic ELSE NoErr

\* The checks of Register's body: a nil strategy or a duplicate name panics.
RegisterOutcome(name, strategy) ==
    IF strategy = NilStrategy THEN Panic
    ELSE IF versionDrivers[name] # NilStrategy THEN Panic
    ELSE NoErr

\* Register taking the lock as a reader would: it waits only for a writer.
RegisterLock_IgnoresReaders(p) ==
    /\ proc[p].pc = "idle"
    /\ versionDriversMu.writer = "none"
    /\ \E name \in Names, strategy \in Strategies \cup {NilStrategy} :
          proc' = [proc EXCEPT ![p] =
                      [Entered("Register") EXCEPT !.pc = "Register",
                                                  !.name = name,
                                                  !.regStrategy = strategy]]
    /\ versionDriversMu' = [versionDriversMu EXCEPT !.writer = p]
    /\ UNCHANGED <<versionDrivers, stored, schema, build, lastDone>>

\* versionDriversMu.Lock(): waits until no reader and no writer holds the lock.
RegisterLock(p) ==
    /\ proc[p].pc = "idle"
    /\ versionDriversMu.writer = "none"
    /\ versionDriversMu.readers = {}
    /\ \E name \in Names, strategy \in Strategies \cup {NilStrategy} :
          proc' = [proc EXCEPT ![p] =
                      [Entered("Register") EXCEPT !.pc = "Register",
                                                  !.name = name,
                                                  !.regStrategy = strategy]]
    /\ versionDriversMu' = [versionDriversMu EXCEPT !.writer = p]
    /\ UNCHANGED <<versionDrivers, stored, schema, build, lastDone>>

\* Register with the Unlock at the end of the body instead of deferred: a
\* panic leaves the lock held.
Register_UnlockOnlyOnSuccess(p) ==
    /\ proc[p].pc = "Register"
    /\ LET r == proc[p]
           out == RegisterOutcome(r.name, r.regStrategy)
       IN  /\ versionDrivers' =
                 IF out = NoErr
                 THEN [versionDrivers EXCEPT ![r.name] = r.regStrategy]
                 ELSE versionDrivers
           /\ proc' = [proc EXCEPT ![p] = Returned(r, out)]
           /\ versionDriversMu' =
                 IF out = NoErr
                 THEN [versionDriversMu EXCEPT !.writer = "none"]
                 ELSE versionDriversMu
    /\ UNCHANGED <<stored, schema, build, lastDone>>

\* The body under the lock, then the deferred Unlock, which also runs when
\* the body panics.
Register(p) ==
    /\ proc[p].pc = "Register"
    /\ LET r == proc[p]
           out == RegisterOutcome(r.name, r.regStrategy)
       IN  /\ versionDrivers' =
                 IF out = NoErr
                 THEN [versionDrivers EXCEPT ![r.name] = r.regStrategy]
                 ELSE versionDrivers
           /\ proc' = [proc EXCEPT ![p] = Returned(r, out)]
    /\ versionDriversMu' = [versionDriversMu EXCEPT !.writer = "none"]
    /\ UNCHANGED <<stored, schema, build, lastDone>>

----------------------------------------------------------------------------
\* PersistScheme and strategyFromString (both files, lines 44-77).

\* Validate without the check of line 58: a target below 1 gets through.
Validate_NoVersionCheck(db, scheme) ==
    IF ~db THEN ErrDbNil
    ELSE IF scheme.isNil THEN ErrSchemeNil
    ELSE NoErr

\* The argument checks of lines 50-60, in the order the code makes them.
Validate(db, scheme) ==
    IF ~db THEN ErrDbNil
    ELSE IF scheme.isNil THEN ErrSchemeNil
    ELSE IF scheme.version < 1 THEN ErrVersionLessThanOne
    ELSE NoErr

PersistScheme(p) ==
    /\ proc[p].pc = "idle"
    /\ \E db \in BOOLEAN, scheme \in Schemes \cup {NilScheme} :
          LET r == [Entered("PersistScheme") EXCEPT !.db = db, !.scheme = scheme]
              e == Validate(db, scheme)
          IN  proc' = [proc EXCEPT ![p] =
                          IF e # NoErr THEN Returned(r, e)
                          ELSE [r EXCEPT !.version = scheme.version,
                                         !.pc = "strategyFromString"]]
    /\ UNCHANGED <<versionDrivers, versionDriversMu, stored, schema, build, lastDone>>

\* versionDriversMu.RLock(): waits only for a writer.
strategyFromStringRLock(p) ==
    /\ proc[p].pc = "strategyFromString"
    /\ versionDriversMu.writer = "none"
    /\ versionDriversMu' = [versionDriversMu EXCEPT !.readers = @ \cup {p}]
    /\ proc' = [proc EXCEPT ![p].pc = "lookup"]
    /\ UNCHANGED <<versionDrivers, stored, schema, build, lastDone>>

\* The map read under the read lock, RUnlock, and lines 62-66 of the caller.
strategyFromString(p) ==
    /\ proc[p].pc = "lookup"
    /\ LET r == proc[p]
           versionDriver == versionDrivers[r.scheme.strategy]
       IN  proc' = [proc EXCEPT ![p] =
                       IF versionDriver = NilStrategy
                       THEN Returned(r, ErrUnknownScheme)
                       ELSE [r EXCEPT !.strategy = versionDriver,
                                      !.pc = IF build = "versioned-db.go"
                                             THEN "Version" ELSE "TxBegin"]]
    /\ versionDriversMu' = [versionDriversMu EXCEPT !.readers = @ \ {p}]
    /\ UNCHANGED <<versionDrivers, stored, schema, build, lastDone>>

\* Decide with != where the code has <: a stored version above the target
\* is updated too.
Decide_NotEqual(dbVersion, version) ==
    IF dbVersion = 0 THEN "OnCreate"
    ELSE IF dbVersion # version THEN "OnUpdate"
    ELSE "none"

\* Decide with <= where the code has <: a stored version equal to the target
\* is updated again.
Decide_LessOrEqual(dbVersion, version) ==
    IF dbVersion = 0 THEN "OnCreate"
    ELSE IF dbVersion <= version THEN "OnUpdate"
    ELSE "none"

\* The branch of lines 98-104 (versioned-db.go) and 92-100 (part_000).
Decide(dbVersion, version) ==
    IF dbVersion = 0 THEN "OnCreate"
    ELSE IF dbVersion < version THEN "OnUpdate"
    ELSE "none"

\* CalledBack handing OnUpdate the target version instead of dbVersion.
CalledBack_PassesTarget(r, e, applied) ==
    LET op == Decide(r.dbVersion, r.version)
        r1 == Logged(r, op, IF op = "OnUpdate" THEN r.version ELSE 0, e)
        r2 == IF applied /\ r.tx = "open"
              THEN [r1 EXCEPT !.txSchema = <<r.version>>] ELSE r1
    IN  [r2 EXCEPT !.err = e]

\* scheme.OnCreate(db) or scheme.OnUpdate(db, dbVersion) returning e: the
\* record of the caller afterwards.  A callback that succeeds has made its
\* mutation (applied); one that fails may have made it in part.
CalledBack(r, e, applied) ==
    LET op == Decide(r.dbVersion, r.version)
        r1 == Logged(r, op, IF op = "OnUpdate" THEN r.dbVersion ELSE 0, e)
        r2 == IF applied /\ r.tx = "open"
              THEN [r1 EXCEPT !.txSchema = <<r.version>>] ELSE r1
    IN  [r2 EXCEPT !.err = e]

\* What the callback's mutation leaves durable at once (no open transaction).
SchemaAfterCallback(r, applied) ==
    IF applied /\ r.tx # "open" THEN r.version ELSE schema

\* strategy.SetVersion(db, version) that succeeded, seen from the caller.
VersionSet(r) ==
    IF r.tx = "open" THEN [r EXCEPT !.txVersion = <<r.version>>] ELSE r

\* What a successful SetVersion leaves durable at once.
StoredAfterSetVersion(r) ==
    IF r.tx = "open" THEN stored ELSE r.version

----------------------------------------------------------------------------
\* persistSchemeInternal of src/versioned-db.go (lines 79-116).

\* Line 86: dbVersion, err = strategy.Version(db), before any transaction.
persistSchemeInternal_Version(p) ==
    /\ proc[p].pc = "Version"
    /\ \E ok \in BOOLEAN :
          LET r == Logged(proc[p], "Version", 0, IF ok THEN NoErr ELSE ErrVersion)
          IN  proc' = [proc EXCEPT ![p] =
                          IF ok
                          THEN [r EXCEPT !.dbVersion = VersionRead(proc[p]),
                                         !.pc = "Begin"]
                          ELSE Returned([r EXCEPT !.err = ErrVersion], ErrVersion)]
    /\ UNCHANGED <<versionDrivers, versionDriversMu, stored, schema, build, lastDone>>

\* Lines 92-104: tx, err = db.Begin(), then the branch on dbVersion.
persistSchemeInternal_Begin(p) ==
    /\ proc[p].pc = "Begin"
    /\ \E ok \in BOOLEAN :
          LET r == Logged(proc[p], "Begin", 0, IF ok THEN NoErr ELSE ErrBegin)
          IN  proc' = [proc EXCEPT ![p] =
                          IF ok
                          THEN [TxBegun(r) EXCEPT !.pc =
                                  IF Decide(r.dbVersion, r.version) = "none"
                                  THEN "uptodate" ELSE "callback"]
                          ELSE Returned([r EXCEPT !.err = ErrBegin], ErrBegin)]
    /\ UNCHANGED <<versionDrivers, versionDriversMu, stored, schema, build, lastDone>>

\* Lines 99 and 102: err = scheme.OnCreate(db) or scheme.OnUpdate(db, dbVersion).
persistSchemeInternal_callback(p) ==
    /\ proc[p].pc = "callback"
    /\ \E e \in {NoErr} \cup CallbackErrors, applied \in BOOLEAN :
          /\ e = NoErr => applied
          /\ proc' = [proc EXCEPT ![p] =
                         [CalledBack(proc[p], e, applied) EXCEPT !.pc = "finalize"]]
          /\ schema' = SchemaAfterCallback(proc[p], applied)
    /\ UNCHANGED <<versionDrivers, versionDriversMu, stored, build, lastDone>>

\* Lines 109-114: on an error Rollback and return it; otherwise tx.Commit(),
\* whose result is dropped, and on to SetVersion.
persistSchemeInternal_finalize(p) ==
    /\ proc[p].pc = "finalize"
    /\ LET r == proc[p]
       IN  IF r.err # NoErr
           THEN /\ proc' = [proc EXCEPT ![p] =
                               Returned(TxRolledBack(Logged(r, "Rollback", 0, NoErr)), r.err)]
                /\ UNCHANGED <<stored, schema>>
           ELSE \E ok \in BOOLEAN :
                   LET c == Logged(r, "Commit", 0, IF ok THEN NoErr ELSE ErrCommit)
                   IN  IF ok
                       THEN /\ proc' = [proc EXCEPT ![p] =
                                           [TxCommitted(c) EXCEPT !.pc = "SetVersion"]]
                            /\ stored' = CommittedVersion(r)
                            /\ schema' = CommittedSchema(r)
                       ELSE /\ proc' = [proc EXCEPT ![p] =
                                           [TxCommitFailed(c) EXCEPT !.pc = "SetVersion"]]
                            /\ UNCHANGED <<stored, schema>>
    /\ UNCHANGED <<versionDrivers, versionDriversMu, build, lastDone>>

\* Line 115: return strategy.SetVersion(db, version).
persistSchemeInternal_SetVersion(p) ==
    /\ proc[p].pc = "SetVersion"
    /\ \E ok \in BOOLEAN :
          LET r == Logged(proc[p], "SetVersion", proc[p].version,
                          IF ok THEN NoErr ELSE ErrSetVersion)
          IN  IF ok
              THEN /\ proc' = [proc EXCEPT ![p] = Returned(VersionSet(r), NoErr)]
                   /\ stored' = StoredAfterSetVersion(r)
              ELSE /\ proc' = [proc EXCEPT ![p] =
                                  Returned([r EXCEPT !.err = ErrSetVersion],
                                           ErrSetVersion)]
                   /\ UNCHANGED stored
    /\ UNCHANGED <<versionDrivers, versionDriversMu, schema, build, lastDone>>

\* Lines 106-107: nothing to do: tx.Rollback(); return nil.
persistSchemeInternal_uptodate(p) ==
    /\ proc[p].pc = "uptodate"
    /\ proc' = [proc EXCEPT ![p] =
                   Returned(TxRolledBack(Logged(proc[p], "Rollback", 0, NoErr)), NoErr)]
    /\ UNCHANGED <<versionDrivers, versionDriversMu, stored, schema, build, lastDone>>

----------------------------------------------------------------------------
\* persistSchemeInternal of src/unnamed/part_000 (lines 79-117).

\* db.Begin() behind a lock on the store: it waits while another caller has
\* a transaction open.
persistSchemeInternalTx_Begin_Exclusive(p) ==
    /\ proc[p].pc = "TxBegin"
    /\ \A q \in Procs \ {p} : proc[q].tx # "open"
    /\ \E ok \in BOOLEAN :
          LET r == Logged(proc[p], "Begin", 0, IF ok THEN NoErr ELSE ErrBegin)
          IN  proc' = [proc EXCEPT ![p] =
                          IF ok THEN [TxBegun(r) EXCEPT !.pc = "TxVersion"]
                          ELSE Returned([r EXCEPT !.err = ErrBegin], ErrBegin)]
    /\ UNCHANGED <<versionDrivers, versionDriversMu, stored, schema, build, lastDone>>

\* Begin whose transaction the later statements are not part of: the work
\* runs outside any transaction.
persistSchemeInternalTx_Begin_NoTx(p) ==
    /\ proc[p].pc = "TxBegin"
    /\ \E ok \in BOOLEAN :
          LET r == Logged(proc[p], "Begin", 0, IF ok THEN NoErr ELSE ErrBegin)
          IN  proc' = [proc EXCEPT ![p] =
                          IF ok THEN [r EXCEPT !.pc = "TxVersion"]
                          ELSE Returned([r EXCEPT !.err = ErrBegin], ErrBegin)]
    /\ UNCHANGED <<versionDrivers, versionDriversMu, stored, schema, build, lastDone>>

\* Lines 82-85: tx, err := db.Begin().
persistSchemeInternalTx_Begin(p) ==
    /\ proc[p].pc = "TxBegin"
    /\ \E ok \in BOOLEAN :
          LET r == Logged(proc[p], "Begin", 0, IF ok THEN NoErr ELSE ErrBegin)
          IN  proc' = [proc EXCEPT ![p] =
                          IF ok THEN [TxBegun(r) EXCEPT !.pc = "TxVersion"]
                          ELSE Returned([r EXCEPT !.err = ErrBegin], ErrBegin)]
    /\ UNCHANGED <<versionDrivers, versionDriversMu, stored, schema, build, lastDone>>

\* Lines 87-100: dbVersion, err := strategy.Version(db), then the branch.
persistSchemeInternalTx_Version(p) ==
    /\ proc[p].pc = "TxVersion"
    /\ \E ok \in BOOLEAN :
          LET r == Logged(proc[p], "Version", 0, IF ok THEN NoErr ELSE ErrVersion)
              v == VersionRead(proc[p])
          IN  proc' = [proc EXCEPT ![p] =
                          IF ok
                          THEN [r EXCEPT !.dbVersion = v,
                                         !.pc = IF Decide(v, r.version) = "none"
                                                THEN "TxRollback" ELSE "TxFinalize"]
                          ELSE [r EXCEPT !.err = ErrVersion, !.pc = "TxRollback"]]
    /\ UNCHANGED <<versionDrivers, versionDriversMu, stored, schema, build, lastDone>>

\* Lines 102-106: err = createOrUpdate(db).
persistSchemeInternalTx_finalize(p) ==
    /\ proc[p].pc = "TxFinalize"
    /\ \E e \in {NoErr} \cup CallbackErrors, applied \in BOOLEAN :
          /\ e = NoErr => applied
          /\ proc' = [proc EXCEPT ![p] =
                         [CalledBack(proc[p], e, applied) EXCEPT !.pc =
                             IF e # NoErr THEN "TxRollback" ELSE "TxSetVersion"]]
          /\ schema' = SchemaAfterCallback(proc[p], applied)
    /\ UNCHANGED <<versionDrivers, versionDriversMu, stored, build, lastDone>>

\* Lines 107-110: err = strategy.SetVersion(db, version).
persistSchemeInternalTx_SetVersion(p) ==
    /\ proc[p].pc = "TxSetVersion"
    /\ \E ok \in BOOLEAN :
          LET r == Logged(proc[p], "SetVersion", proc[p].version,
                          IF ok THEN NoErr ELSE ErrSetVersion)
          IN  IF ok
              THEN /\ proc' = [proc EXCEPT ![p] =
                                  [VersionSet(r) EXCEPT !.pc = "TxCommit"]]
                   /\ stored' = StoredAfterSetVersion(r)
              ELSE /\ proc' = [proc EXCEPT ![p] =
                                  [r EXCEPT !.err = ErrSetVersion,
                                            !.pc = "TxRollback"]]
                   /\ UNCHANGED stored
    /\ UNCHANGED <<versionDrivers, versionDriversMu, schema, build, lastDone>>

\* Line 111 with Commit's result dropped: the call returns nil either way.
persistSchemeInternalTx_Commit_DropsError(p) ==
    /\ proc[p].pc = "TxCommit"
    /\ \E ok \in BOOLEAN :
          LET r == proc[p]
              c == Logged(r, "Commit", 0, IF ok THEN NoErr ELSE ErrCommit)
          IN  IF ok
              THEN /\ proc' = [proc EXCEPT ![p] = Returned(TxCommitted(c), NoErr)]
                   /\ stored' = CommittedVersion(r)
                   /\ schema' = CommittedSchema(r)
              ELSE /\ proc' = [proc EXCEPT ![p] = Returned(TxCommitFailed(c), NoErr)]
                   /\ UNCHANGED <<stored, schema>>
    /\ UNCHANGED <<versionDrivers, versionDriversMu, build, lastDone>>

\* Line 111: return tx.Commit().
persistSchemeInternalTx_Commit(p) ==
    /\ proc[p].pc = "TxCommit"
    /\ \E ok \in BOOLEAN :
          LET r == proc[p]
              c == Logged(r, "Commit", 0, IF ok THEN NoErr ELSE ErrCommit)
          IN  IF ok
              THEN /\ proc' = [proc EXCEPT ![p] = Returned(TxCommitted(c), NoErr)]
                   /\ stored' = CommittedVersion(r)
                   /\ schema' = CommittedSchema(r)
              ELSE /\ proc' = [proc EXCEPT ![p] =
                                  Returned([TxCommitFailed(c) EXCEPT !.err = ErrCommit],
                                           ErrCommit)]
                   /\ UNCHANGED <<stored, schema>>
    /\ UNCHANGED <<versionDrivers, versionDriversMu, build, lastDone>>

\* The rollback label returning nil instead of err.
persistSchemeInternalTx_rollback_ReturnsNil(p) ==
    /\ proc[p].pc = "TxRollback"
    /\ proc' = [proc EXCEPT ![p] =
                   Returned(TxRolledBack(Logged(proc[p], "Rollback", 0, NoErr)),
                            NoErr)]
    /\ UNCHANGED <<versionDrivers, versionDriversMu, stored, schema, build, lastDone>>

\* Lines 113-115: tx.Rollback(); return err.
persistSchemeInternalTx_rollback(p) ==
    /\ proc[p].pc = "TxRollback"
    /\ proc' = [proc EXCEPT ![p] =
                   Returned(TxRolledBack(Logged(proc[p], "Rollback", 0, NoErr)),
                            proc[p].err)]
    /\ UNCHANGED <<versionDrivers, versionDriversMu, stored, schema, build, lastDone>>

----------------------------------------------------------------------------
\* The caller has its result (or has recovered the panic) and may call again.
Return(p) ==
    /\ proc[p].pc = "returned"
    /\ proc' = [proc EXCEPT ![p] = Idle]
    /\ lastDone' =
          IF /\ proc[p].op = "PersistScheme"
             /\ proc[p].ret = NoErr
             /\ \E i \in DOMAIN proc[p].log :
                   proc[p].log[i].op \in {"OnCreate", "OnUpdate"}
          THEN proc[p].scheme
          ELSE lastDone
    /\ UNCHANGED <<versionDrivers, versionDriversMu, stored, schema, build>>

\* Calls that do not overlap: a call starts only when no other is running.
Next ==
    \E p \in Procs :
        \/ Quiet /\ RegisterLock(p)
        \/ Register(p)
        \/ Quiet /\ PersistScheme(p)
        \/ strategyFromStringRLock(p)
        \/ strategyFromString(p)
        \/ persistSchemeInternal_Version(p)
        \/ persistSchemeInternal_Begin(p)
        \/ persistSchemeInternal_callback(p)
        \/ persistSchemeInternal_finalize(p)
        \/ persistSchemeInternal_SetVersion(p)
        \/ persistSchemeInternal_uptodate(p)
        \/ persistSchemeInternalTx_Begin(p)
        \/ persistSchemeInternalTx_Version(p)
        \/ persistSchemeInternalTx_finalize(p)
        \/ persistSchemeInternalTx_SetVersion(p)
        \/ persistSchemeInternalTx_Commit(p)
        \/ persistSchemeInternalTx_rollback(p)
        \/ Return(p)

Spec == Init /\ [][Next]_vars

\* The positions of a caller inside persistSchemeInternal.
StorePcs ==
    {"Version", "Begin", "callback", "finalize", "SetVersion", "uptodate",
     "TxBegin", "TxVersion", "TxFinalize", "TxSetVersion", "TxCommit",
     "TxRollback"}

InStore(p) == proc[p].pc \in StorePcs

\* No caller is waiting to take the result of a finished call.
NoneReturned == \A q \in Procs : proc[q].pc # "returned"

\* No caller is inside persistSchemeInternal.
NoneInStore == \A q \in Procs : ~InStore(q)

\* p may take its next step inside persistSchemeInternal: every other caller
\* has left the registry part of its call, and p is the first of those that
\* are inside persistSchemeInternal.
StoreTurn(p) ==
    \A q \in Procs \ {p} :
        \/ proc[q].pc = "idle"
        \/ InStore(q) /\ p = "p1"

\* Calls that overlap in their registry parts: Register and the lookup of
\* PersistScheme interleave in every way.  persistSchemeInternal touches
\* neither the registry nor its lock, so here the callers run it one after
\* another, once the registry parts are over; and a finished call hands its
\* result over before anything else happens.
NextRegistry ==
    \E p \in Procs :
        \/ NoneReturned /\ NoneInStore /\ RegisterLock(p)
        \/ NoneReturned /\ Register(p)
        \/ NoneReturned /\ NoneInStore /\ PersistScheme(p)
        \/ NoneReturned /\ strategyFromStringRLock(p)
        \/ NoneReturned /\ strategyFromString(p)
        \/ StoreTurn(p) /\ persistSchemeInternal_Version(p)
        \/ StoreTurn(p) /\ persistSchemeInternal_Begin(p)
        \/ StoreTurn(p) /\ persistSchemeInternal_callback(p)
        \/ StoreTurn(p) /\ persistSchemeInternal_finalize(p)
        \/ StoreTurn(p) /\ persistSchemeInternal_SetVersion(p)
        \/ StoreTurn(p) /\ persistSchemeInternal_uptodate(p)
        \/ StoreTurn(p) /\ persistSchemeInternalTx_Begin(p)
        \/ StoreTurn(p) /\ persistSchemeInternalTx_Version(p)
        \/ StoreTurn(p) /\ persistSchemeInternalTx_finalize(p)
        \/ StoreTurn(p) /\ persistSchemeInternalTx_SetVersion(p)
        \/ StoreTurn(p) /\ persistSchemeInternalTx_Commit(p)
        \/ StoreTurn(p) /\ persistSchemeInternalTx_rollback(p)
        \/ Return(p)

SpecRegistry == Init /\ [][NextRegistry]_vars

\* One step of p inside persistSchemeInternal, whichever it is.
StoreStep(p) ==
    \/ persistSchemeInternal_Version(p)
    \/ persistSchemeInternal_Begin(p)
    \/ persistSchemeInternal_callback(p)
    \/ persistSchemeInternal_finalize(p)
    \/ persistSchemeInternal_SetVersion(p)
    \/ persistSchemeInternal_uptodate(p)
    \/ persistSchemeInternalTx_Begin(p)
    \/ persistSchemeInternalTx_Version(p)
    \/ persistSchemeInternalTx_finalize(p)
    \/ persistSchemeInternalTx_SetVersion(p)
    \/ persistSchemeInternalTx_Commit(p)
    \/ persistSchemeInternalTx_rollback(p)

\* A second apply may start while another is running, on a store at version 0
\* (the callers are interchangeable: the one who comes second is called p2).
\* The version is the one a strategy keeps, so the callers who race for it
\* name the same strategy.  Validation and the registry lookup touch nothing
\* the store steps touch, so it is enough to start the second call when the
\* first is at the door of persistSchemeInternal.
MayOverlap(p) ==
    \/ Quiet
    \/ /\ stored = 0
       /\ p = "p2"
       /\ \A q \in Procs \ {p} :
             /\ proc[q].op = "PersistScheme"
             /\ proc[q].pc \in {"Version", "TxBegin"}
             /\ proc'[p].scheme.strategy = proc[q].scheme.strategy

\* No caller is between PersistScheme's entry and persistSchemeInternal.
NoneInLookup ==
    \A q \in Procs : proc[q].pc \notin {"strategyFromString", "lookup"}

\* Concurrent apply calls against one store at version 0: registrations are
\* made one at a time; PersistScheme calls overlap, their store steps
\* interleaved in every way, on a store that does nothing to isolate them
\* (each caller reads the durable version, whatever another has pending).
NextRace ==
    \E p \in Procs :
        \/ Quiet /\ RegisterLock(p)
        \/ Register(p)
        \/ NoneReturned /\ PersistScheme(p) /\ MayOverlap(p)
        \/ NoneReturned /\ strategyFromStringRLock(p)
        \/ NoneReturned /\ strategyFromString(p)
        \/ NoneReturned /\ NoneInLookup /\ persistSchemeInternal_Version(p)
        \/ NoneReturned /\ NoneInLookup /\ persistSchemeInternal_Begin(p)
        \/ NoneReturned /\ NoneInLookup /\ persistSchemeInternal_callback(p)
        \/ NoneReturned /\ NoneInLookup /\ persistSchemeInternal_finalize(p)
        \/ NoneReturned /\ NoneInLookup /\ persistSchemeInternal_SetVersion(p)
        \/ NoneReturned /\ NoneInLookup /\ persistSchemeInternal_uptodate(p)
        \/ NoneReturned /\ NoneInLookup /\ persistSchemeInternalTx_Begin(p)
        \/ NoneReturned /\ NoneInLookup /\ persistSchemeInternalTx_Version(p)
        \/ NoneReturned /\ NoneInLookup /\ persistSchemeInternalTx_finalize(p)
        \/ NoneReturned /\ NoneInLookup /\ persistSchemeInternalTx_SetVersion(p)
        \/ NoneReturned /\ NoneInLookup /\ persistSchemeInternalTx_Commit(p)
        \/ NoneReturned /\ NoneInLookup /\ persistSchemeInternalTx_rollback(p)
        \/ Return(p)

SpecRace == Init /\ [][NextRace]_vars

----------------------------------------------------------------------------
\* Vocabulary of the properties.

Callbacks == {"OnCreate", "OnUpdate"}

\* How many calls of the operations ops the log holds.
Count(log, ops) == Cardinality({i \in DOMAIN log : log[i].op \in ops})

\* Some call of ops in the log returned no error / returned an error.
Succeeded(log, ops) ==
    \E i \in DOMAIN log : log[i].op \in ops /\ log[i].res = NoErr

Failed(log, ops) ==
    \E i \in DOMAIN log : log[i].op \in ops /\ log[i].res # NoErr

AllSucceeded(log) == \A i \in DOMAIN log : log[i].res = NoErr

\* Every call of as in the log comes before every call of bs.
Precedes(log, as, bs) ==
    \A i, j \in DOMAIN log : log[i].op \in as /\ log[j].op \in bs => i < j

\* An apply (PersistScheme) call of p has returned to its caller.
ApplyReturned(p) == proc[p].pc = "returned" /\ proc[p].op = "PersistScheme"

\* The arguments of p's call satisfy the input constraints.
ValidInput(p) ==
    /\ proc[p].db
    /\ ~proc[p].scheme.isNil
    /\ proc[p].scheme.version >= 1
    /\ proc[p].preDrivers[proc[p].scheme.strategy] # NilStrategy

----------------------------------------------------------------------------
\* C1: for every apply call that passes validation, the stored version
\* differs after the call from before it if and only if the callback
\* returned no error, SetVersion returned no error and Commit succeeded.
C1_VersionChangesIffCommitted ==
    \A p \in Procs :
        ApplyReturned(p) /\ ValidInput(p) =>
            ( stored # proc[p].preStored
              <=> /\ Succeeded(proc[p].log, Callbacks)
                  /\ Succeeded(proc[p].log, {"SetVersion"})
                  /\ Succeeded(proc[p].log, {"Commit"}) )

\* C2: if the callback succeeds but SetVersion fails, the transaction is
\* rolled back and never committed, apply returns an error, and neither the
\* stored version nor the durable schema has changed.
C2_VersionWriteFailureUndoesCallback ==
    \A p \in Procs :
        /\ ApplyReturned(p)
        /\ Succeeded(proc[p].log, Callbacks)
        /\ Failed(proc[p].log, {"SetVersion"})
        => /\ Count(proc[p].log, {"Rollback"}) = 1
           /\ Count(proc[p].log, {"Commit"}) = 0
           /\ proc[p].ret # NoErr
           /\ stored = proc[p].preStored
           /\ schema = proc[p].preSchema

\* C3: if the chosen callback (OnCreate at stored version 0, OnUpdate at
\* 0 < stored < target) returns an error e, apply rolls back, calls neither
\* SetVersion nor Commit, returns exactly e, and the stored version is the
\* one before the call.
C3_CallbackErrorRollsBack ==
    \A p \in Procs :
        ApplyReturned(p) =>
            \A i \in DOMAIN proc[p].log :
                LET c == proc[p].log[i]
                IN  c.op \in Callbacks /\ c.res # NoErr =>
                        /\ c.op = "OnCreate" <=> proc[p].preStored = 0
                        /\ c.op = "OnUpdate" <=>
                              ( 0 < proc[p].preStored
                                /\ proc[p].preStored < proc[p].scheme.version )
                        /\ Count(proc[p].log, {"Rollback"}) = 1
                        /\ Count(proc[p].log, {"SetVersion"}) = 0
                        /\ Count(proc[p].log, {"Commit"}) = 0
                        /\ proc[p].ret = c.res
                        /\ stored = proc[p].preStored

C3_Witness ==
    \E p \in Procs :
        /\ ApplyReturned(p)
        /\ proc[p].ret = "OtherError"
        /\ \E i \in DOMAIN proc[p].log :
              proc[p].log[i] = Event("OnUpdate", 1, "OtherError")

C5_CreateThenWriteThenCommit ==
    \A p \in Procs :
        /\ ApplyReturned(p)
        /\ ValidInput(p)
        /\ proc[p].preStored = 0
        /\ AllSucceeded(proc[p].log)
        => /\ Count(proc[p].log, {"OnCreate"}) = 1
           /\ Count(proc[p].log, {"OnUpdate"}) = 0
           /\ \E i, j, k \in DOMAIN proc[p].log :
                 /\ i < j /\ j < k
                 /\ proc[p].log[i].op = "OnCreate"
                 /\ proc[p].log[j].op = "SetVersion"
                 /\ proc[p].log[j].arg = proc[p].scheme.version
                 /\ proc[p].log[k].op = "Commit"
           /\ proc[p].ret = NoErr
           /\ stored = proc[p].scheme.version

\* C6: with 0 < stored < target, valid input and every collaborator
\* succeeding, apply calls OnUpdate exactly once, with oldVersion the stored
\* version it read, never OnCreate, calls SetVersion with the target, issues
\* Commit, returns nil, and the stored version is the target.
C6_UpdateWithOldVersion ==
    \A p \in Procs :
        /\ ApplyReturned(p)
        /\ ValidInput(p)
        /\ 0 < proc[p].preStored
        /\ proc[p].preStored < proc[p].scheme.version
        /\ AllSucceeded(proc[p].log)
        => /\ Count(proc[p].log, {"OnUpdate"}) = 1
           /\ Count(proc[p].log, {"OnCreate"}) = 0
           /\ \A i \in DOMAIN proc[p].log :
                 proc[p].log[i].op = "OnUpdate" =>
                    /\ proc[p].log[i].arg = proc[p].dbVersion
                    /\ proc[p].log[i].arg = proc[p].preStored
           /\ \E j \in DOMAIN proc[p].log :
                 /\ proc[p].log[j].op = "SetVersion"
                 /\ proc[p].log[j].arg = proc[p].scheme.version
           /\ Count(proc[p].log, {"SetVersion"}) = 1
           /\ Count(proc[p].log, {"Commit"}) = 1
           /\ proc[p].ret = NoErr
           /\ stored = proc[p].scheme.version

C6_Witness ==
    \E p \in Procs :
        /\ ApplyReturned(p)
        /\ proc[p].preStored = 1
        /\ proc[p].scheme.version = 3
        /\ AllSucceeded(proc[p].log)
        /\ stored = 3

\* C7: with valid input and the stored version apply read, inside a begun
\* transaction, at or above the target, apply calls neither callback nor
\* SetVersion, rolls back instead of committing, returns nil and leaves the
\* stored version unchanged.
C7_UpToDateIsNoOp ==
    \A p \in Procs :
        /\ ApplyReturned(p)
        /\ ValidInput(p)
        /\ Succeeded(proc[p].log, {"Version"})
        /\ Succeeded(proc[p].log, {"Begin"})
        /\ proc[p].preStored >= proc[p].scheme.version
        => /\ Count(proc[p].log, Callbacks) = 0
           /\ Count(proc[p].log, {"SetVersion"}) = 0
           /\ Count(proc[p].log, {"Rollback"}) = 1
           /\ Count(proc[p].log, {"Commit"}) = 0
           /\ proc[p].ret = NoErr
           /\ stored = proc[p].preStored

\* The caller passes a smaller target than the persisted version.
C7_Witness ==
    \E p \in Procs :
        /\ ApplyReturned(p)
        /\ ValidInput(p)
        /\ Succeeded(proc[p].log, {"Version"})
        /\ Succeeded(proc[p].log, {"Begin"})
        /\ proc[p].preStored > proc[p].scheme.version

\* C8: on a nil store, a nil scheme, a target below 1 or an unregistered
\* strategy name, apply returns a non-nil error (no panic) having called no
\* collaborator at all (no Begin, Version, OnCreate, OnUpdate, SetVersion),
\* and the stored version and the registry are unchanged.
C8_InvalidInputHasNoEffect ==
    \A p \in Procs :
        ApplyReturned(p) /\ ~ValidInput(p) =>
            /\ proc[p].ret \notin {NoErr, Panic}
            /\ proc[p].log = <<>>
            /\ proc[p].tx = "none"
            /\ stored = proc[p].preStored
            /\ schema = proc[p].preSchema
            /\ versionDrivers = proc[p].preDrivers

\* A registered strategy exists, yet the scheme names another one.
C8_Witness ==
    \E p \in Procs :
        /\ ApplyReturned(p)
        /\ proc[p].db /\ ~proc[p].scheme.isNil /\ proc[p].scheme.version >= 1
        /\ proc[p].ret = ErrUnknownScheme
        /\ \E n \in Names : versionDrivers[n] # NilStrategy

\* C9: within one apply call the version read comes before the callback,
\* the callback before SetVersion, and SetVersion before Commit.
C9_CallOrder ==
    \A p \in Procs :
        /\ Precedes(proc[p].log, {"Version"}, Callbacks)
        /\ Precedes(proc[p].log, Callbacks, {"SetVersion"})
        /\ Precedes(proc[p].log, {"SetVersion"}, {"Commit"})

\* C10: whenever apply returns having begun a transaction, exactly one of
\* Commit and Rollback was issued on it; Commit exactly when apply returns
\* nil after a create or update, Rollback when it returns nil without a
\* callback or returns an error.
C10_OneTerminalVerb ==
    \A p \in Procs :
        ApplyReturned(p) /\ Succeeded(proc[p].log, {"Begin"}) =>
            /\ Count(proc[p].log, {"Commit", "Rollback"}) = 1
            /\ proc[p].tx # "open"
            /\ Count(proc[p].log, {"Commit"}) = 1
                  <=> ( proc[p].ret = NoErr
                        /\ Count(proc[p].log, Callbacks) = 1 )
            /\ ( proc[p].ret # NoErr \/ Count(proc[p].log, Callbacks) = 0 )
                  => Count(proc[p].log, {"Rollback"}) = 1

\* C11: no runtime failure is swallowed: if Begin, the version read, the
\* callback, SetVersion or Commit fails, apply returns that call's error; so
\* apply returns nil only if every one of those calls it made succeeded.
C11_NoFailureSwallowed ==
    \A p \in Procs :
        ApplyReturned(p) =>
            \A i \in DOMAIN proc[p].log :
                LET c == proc[p].log[i]
                IN  /\ c.op \in {"Begin", "Version", "SetVersion", "Commit"}
                             \cup Callbacks
                    /\ c.res # NoErr
                    => proc[p].ret = c.res

\* C12: the stored version is read inside the transaction: Begin is issued
\* before Version, and if the read fails the transaction is rolled back,
\* neither a callback nor SetVersion is called, and the read's error is
\* returned.
C12_VersionReadInsideTransaction ==
    \A p \in Procs :
        /\ \A i \in DOMAIN proc[p].log :
              proc[p].log[i].op = "Version" =>
                 \E j \in 1..(i - 1) :
                    /\ proc[p].log[j].op = "Begin"
                    /\ proc[p].log[j].res = NoErr
        /\ ApplyReturned(p) /\ Failed(proc[p].log, {"Version"}) =>
              /\ Count(proc[p].log, {"Rollback"}) = 1
              /\ Count(proc[p].log, Callbacks) = 0
              /\ Count(proc[p].log, {"SetVersion"}) = 0
              /\ proc[p].ret = ErrVersion

\* C13: idempotence once current: after an apply with scheme S has returned
\* nil through a create or an update, a later apply with the same S (no other
\* create or update in between; its Begin and version read succeeding) calls
\* no callback and no SetVersion, returns nil, and leaves the stored version
\* at S's target.
C13_IdempotentOnceCurrent ==
    \A p \in Procs :
        /\ ApplyReturned(p)
        /\ proc[p].db
        /\ ~lastDone.isNil
        /\ proc[p].scheme = lastDone
        /\ Succeeded(proc[p].log, {"Version"})
        /\ Succeeded(proc[p].log, {"Begin"})
        => /\ Count(proc[p].log, Callbacks) = 0
           /\ Count(proc[p].log, {"SetVersion"}) = 0
           /\ proc[p].ret = NoErr
           /\ stored = lastDone.version
           /\ proc[p].preStored = lastDone.version

\* A second apply of the scheme that has just been applied has returned.
C13_Witness ==
    \E p \in Procs :
        /\ ApplyReturned(p)
        /\ ~lastDone.isNil
        /\ proc[p].scheme = lastDone
        /\ lastDone.version = 2
        /\ Succeeded(proc[p].log, {"Version"})
        /\ Succeeded(proc[p].log, {"Begin"})
        /\ proc[p].ret = NoErr

\* A Register call of p has returned or panicked.
RegisterReturned(p) == proc[p].pc = "returned" /\ proc[p].op = "Register"

\* C14: Register panics exactly when the strategy is nil or the name is
\* already registered, and then leaves the registry as it was; otherwise it
\* adds the one binding.  So a name, once bound, keeps its first strategy.
C14_RegisterOnce ==
    /\ [](\A p \in Procs :
            RegisterReturned(p) =>
               LET r == proc[p]
                   fatal == \/ r.regStrategy = NilStrategy
                            \/ r.preDrivers[r.name] # NilStrategy
               IN  /\ fatal <=> r.ret = Panic
                   /\ fatal => versionDrivers = r.preDrivers
                   /\ ~fatal =>
                        /\ r.ret = NoErr
                        /\ versionDrivers =
                              [r.preDrivers EXCEPT ![r.name] = r.regStrategy])
    /\ [][\A n \in Names :
             versionDrivers[n] # NilStrategy =>
                versionDrivers'[n] = versionDrivers[n]]_vars

\* A second registration of a taken name, with another strategy, has panicked.
C14_Witness ==
    \E p \in Procs :
        /\ RegisterReturned(p)
        /\ proc[p].ret = Panic
        /\ proc[p].regStrategy = "s2"
        /\ versionDrivers[proc[p].name] = "s1"

\* C15: under any interleaving of Register calls and lookups, a caller
\* holding the lock for Register's check-and-insert is never alongside a
\* caller reading the map in strategyFromString, nor alongside another
\* Register; several lookups may hold the read lock together.
C15_RegistryLockExcludes ==
    \A p \in Procs :
        proc[p].pc = "Register" =>
            /\ versionDriversMu.writer = p
            /\ versionDriversMu.readers = {}
            /\ \A q \in Procs \ {p} : proc[q].pc \notin {"Register", "lookup"}

\* Two lookups hold the read lock at once, after a registration.
C15_Witness ==
    /\ versionDriversMu.readers = Procs
    /\ \A p \in Procs : proc[p].pc = "lookup"
    /\ \E n \in Names : versionDrivers[n] # NilStrategy

----------------------------------------------------------------------------
\* p's latest collaborator call was a strategy.Version(db) that succeeded.
JustReadVersion(p) ==
    /\ Len(proc'[p].log) = Len(proc[p].log) + 1
    /\ proc'[p].log[Len(proc'[p].log)] = Event("Version", 0, NoErr)

\* C16: the library keeps no apply call out while another is running.  A
\* caller inside persistSchemeInternal can always take its next step,
\* whatever the other callers hold, and a version read that succeeds returns
\* the durable version even while another caller's write is pending.
C16_NoMutualExclusion ==
    /\ [](\A p \in Procs : InStore(p) => ENABLED StoreStep(p))
    /\ [][\A p \in Procs :
            JustReadVersion(p) => proc'[p].dbVersion = stored]_vars

\* Two overlapping calls have both read version 0 and both run OnCreate.
C16_Witness ==
    \A p \in Procs :
        /\ InStore(p)
        /\ proc[p].log # <<>>
        /\ Succeeded(proc[p].log, {"Version"})
        /\ proc[p].dbVersion = 0
        /\ proc[p].preStored = 0
        /\ Succeeded(proc[p].log, {"OnCreate"})

----------------------------------------------------------------------------
\* C17: the registry lock is held only by a caller inside the body of
\* Register or inside the lookup, never after a return or a panic; so
\* whenever nobody is inside, a caller who wants the lock can take it.
C17_RegisterReleasesLock ==
    /\ versionDriversMu.writer # "none" =>
          proc[versionDriversMu.writer].pc = "Register"
    /\ \A p \in versionDriversMu.readers : proc[p].pc = "lookup"
    /\ \A p \in Procs :
          /\ (/\ proc[p].pc = "idle"
              /\ \A q \in Procs : proc[q].pc \notin {"Register", "lookup"})
             => ENABLED RegisterLock(p)
          /\ (/\ proc[p].pc = "strategyFromString"
              /\ \A q \in Procs : proc[q].pc # "Register")
             => ENABLED strategyFromStringRLock(p)

\* A Register call has panicked while another caller waits for the lookup:
\* the lock is free and the waiting caller can take it.
C17_Witness ==
    \E p \in Procs, q \in Procs :
        /\ RegisterReturned(p)
        /\ proc[p].ret = Panic
        /\ versionDriversMu = [writer |-> "none", readers |-> {}]
        /\ proc[q].pc = "strategyFromString"
        /\ ENABLED strategyFromStringRLock(q)

----------------------------------------------------------------------------
\* C18: over calls that do not overlap the stored version never decreases.
\* Every step leaves it where it was or raises it; when an apply call has
\* returned it is the version from before the call or the call's target, and
\* it is the version from before the call when the target is below that.
C18_VersionNeverDecreases ==
    /\ [][stored' >= stored]_vars
    /\ [](\A p \in Procs :
            ApplyReturned(p) =>
               /\ stored >= proc[p].preStored
               /\ stored \in {proc[p].preStored, proc[p].scheme.version}
               /\ (proc[p].scheme.version < proc[p].preStored
                     => stored = proc[p].preStored))

\* A valid call whose target is below the stored version has read the
\* version and returned nil, the stored version as it was.
C18_Witness ==
    \E p \in Procs :
        /\ ApplyReturned(p)
        /\ ValidInput(p)
        /\ proc[p].ret = NoErr
        /\ proc[p].scheme.version < proc[p].preStored
        /\ Succeeded(proc[p].log, {"Version"})
        /\ stored = proc[p].preStored

\* C19: when an apply call that overlaps no other returns nil, the stored
\* version is at least the target: the target itself if OnCreate or OnUpdate
\* ran, and the version from before the call if neither did.
C19_SuccessMeansAtLeastTarget ==
    \A p \in Procs :
        (ApplyReturned(p) /\ proc[p].ret = NoErr) =>
            /\ stored >= proc[p].scheme.version
            /\ (Count(proc[p].log, Callbacks) > 0
                  => stored = proc[p].scheme.version)
            /\ (Count(proc[p].log, Callbacks) = 0
                  => stored = proc[p].preStored)

\* An update has returned nil and left the target as the stored version.
C19_Witness ==
    \E p \in Procs :
        /\ ApplyReturned(p)
        /\ proc[p].ret = NoErr
        /\ Succeeded(proc[p].log, {"OnUpdate"})
        /\ proc[p].preStored < proc[p].scheme.version
        /\ stored = proc[p].scheme.version

====
